---- MODULE Spec2Model ----
(***************************************************************************)
(* A model of Multi-data-dashboard.py: the three data pipelines            *)
(* (fetch_crypto_data, get_coordinates + fetch_weather_data,               *)
(* generate_mock_stock_data) and the update_dashboard callback that runs   *)
(* one of them and turns its table into cards and figures.                 *)
(*                                                                         *)
(* One refresh is a process whose position is pc.  Every HTTP request is   *)
(* one step, the upstream response being an input of that step; a reading  *)
(* of the clock and the draws of the random generator are inputs too.  The *)
(* rest of update_*_dashboard, from the return of the pipeline to the      *)
(* return of the callback, is one step.  Floating point values are         *)
(* modelled by integers and by exact fractions n/d (rounding errors are    *)
(* not modelled); NaN and the infinities are separate values.              *)
(***************************************************************************)
EXTENDS Integers, Sequences, FiniteSets, TLC

VARIABLES
    data_type,    \* value of the 'data-type-selector' dropdown
    time_range,   \* value of the 'time-range-slider'
    location,     \* value of the 'location-input' text field
    pc,           \* position of the refresh in flight
    clock,        \* wall clock (milliseconds) at its last reading
    coinIdx,      \* loop index of fetch_crypto_data / generate_mock_stock_data
    data,         \* the local list 'data' of per-coin / per-symbol frames
    coords,       \* the triple returned by get_coordinates
    df,           \* the table returned by the selected pipeline
    responses,    \* the upstream responses received by this refresh, in order
    log,          \* the calls made by this refresh, in order
    result        \* the value returned by update_dashboard

vars == <<data_type, time_range, location, pc, clock, coinIdx, data, coords,
          df, responses, log, result>>

----------------------------------------------------------------------------
(* Bounds of the model *)

MaxRows == 3       \* price pairs received by one crypto refresh, all coins
MaxHours == 2      \* longest hourly array of a forecast payload
MaxDays == 2       \* largest day-count selected on the slider
MaxElapsed == 1    \* milliseconds that pass after the start of the model

----------------------------------------------------------------------------
(* Program constants *)

SliderMin == 1
SliderMax == 30
StepScale == 5
DefaultBase == 100

MsPerSecond == 10 * 100
MsPerDay == 24 * 60 * 60 * MsPerSecond
MsPerHour == 60 * 60 * MsPerSecond

Coins == <<"bitcoin", "ethereum", "cardano">>
Symbols == <<"AAPL", "GOOGL", "MSFT">>

base_prices == [AAPL |-> 180, GOOGL |-> 140, MSFT |-> 380]

(* (40.7128, -74.0060, "New York"); degrees are counted in units of 1e-4.  *)
DefaultCoordinates == [latitude |-> 407128, longitude |-> 0 - 740060,
                       name |-> "New York"]

(* str.capitalize() on the coin identifiers. *)
Capitalize(coin) ==
    CASE coin = "bitcoin" -> "Bitcoin"
      [] coin = "ethereum" -> "Ethereum"
      [] coin = "cardano" -> "Cardano"

(* The order of Python's string comparison on the labels of the tables;    *)
(* groupby() lists its groups in this order.                                *)
SortedLabels == <<"AAPL", "Bitcoin", "Cardano", "Ethereum", "GOOGL", "MSFT">>

----------------------------------------------------------------------------
(* Values *)

NoneValue == [t |-> "none", v |-> 0]
Num(v) == [t |-> "num", v |-> v]
Str(v) == [t |-> "str", v |-> v]
IsNum(x) == x.t = "num"

NaN == [k |-> "nan", n |-> 0, d |-> 1]
Inf(sign) == [k |-> "inf", n |-> sign, d |-> 0]
Frac(n, d) == [k |-> "num", n |-> n, d |-> d]

(* float division a / b of numpy scalars: never raises. *)
Div(a, b) ==
    IF b = 0
    THEN IF a = 0 THEN NaN ELSE Inf(IF a > 0 THEN 1 ELSE 0 - 1)
    ELSE IF b > 0 THEN Frac(a, b) ELSE Frac(0 - a, 0 - b)

(* x > 0 on a float; False for NaN. *)
Positive(x) ==
    CASE x.k = "nan" -> FALSE
      [] x.k = "inf" -> x.n > 0
      [] OTHER -> x.n > 0

Abs(i) == IF i < 0 THEN 0 - i ELSE i

(* f"{x:.1f}" and f"{x:+.2f}": the value counted in units of 1/scale,      *)
(* rounded to the nearest unit.                                             *)
FormatFixed(x, scale) ==
    CASE x.k = "nan" -> [text |-> "nan", units |-> 0]
      [] x.k = "inf" -> [text |-> "inf", units |-> x.n]
      [] OTHER ->
           LET q == (2 * Abs(x.n) * scale + x.d) \div (2 * x.d)
           IN  [text |-> "num", units |-> IF x.n < 0 THEN 0 - q ELSE q]

(* pd.to_datetime(ms, unit='ms'): the calendar instant of an epoch value.  *)
ToDatetimeMs(ms) == [day |-> ms \div MsPerDay, ms |-> ms % MsPerDay]

(* strftime("%Y-%m-%d %H:%M:%S"): the day and the second of the day.       *)
Strftime(t) == [day |-> t \div MsPerDay, second |-> (t % MsPerDay) \div MsPerSecond]

Min(a, b) == IF a < b THEN a ELSE b

RECURSIVE Concat(_)
(* pd.concat(frames): the rows of the frames, frame after frame. *)
Concat(frames) ==
    IF frames = <<>> THEN <<>> ELSE Head(frames) \o Concat(Tail(frames))

Last(s) == s[Len(s)]

----------------------------------------------------------------------------
(* Upstream inputs *)

Days == SliderMin .. Min(MaxDays, SliderMax)

Locations == {NoneValue, Str(""), Str("New York"), Str("London")}

JsonPrices == {Num(95), Num(100), Num(110)}

(* The epoch (milliseconds) of the i-th pair of a market-chart payload. *)
EpochMs(i) == MsPerDay + i * (MsPerHour + 1500)

(* The payloads {"prices": [[epoch_ms, price], ...]} with n pairs. *)
PriceLists(n) == [1 .. n -> JsonPrices]
Pairs(ps) == [i \in 1 .. Len(ps) |-> <<Num(EpochMs(i)), ps[i]>>]

InvalidBody == [valid |-> FALSE, keys |-> {}, prices |-> <<>>]
PricesBody(pairs) == [valid |-> TRUE, keys |-> {"prices"}, prices |-> pairs]
Response(exc, status, body) == [exc |-> exc, status |-> status, body |-> body]

(* What requests.get(.../market_chart) can produce when at most room more  *)
(* pairs are received: a transport error or timeout, a non-200 status, a   *)
(* JSON object without 'prices', a pair of three elements, a list of       *)
(* pairs, or a pair whose price is not a number.                            *)
CryptoResponses(room) ==
    {Response(TRUE, 0, InvalidBody),
     Response(FALSE, 429, PricesBody(Pairs(<<Num(100)>>))),
     Response(FALSE, 200, [valid |-> TRUE, keys |-> {"error"}, prices |-> <<>>]),
     Response(FALSE, 200, PricesBody(<<<<Num(EpochMs(1)), Num(100), Num(7)>>>>))}
    \cup {Response(FALSE, 200, PricesBody(Pairs(ps))) :
             ps \in UNION {PriceLists(n) : n \in 0 .. room}}
    \cup {Response(FALSE, 200, PricesBody(Pairs(<<Str("n/a")>>))) :
             n \in 1 .. Min(room, 1)}

(* The geocoding results: {"latitude": .., "longitude": .., "name": ..}. *)
GeoResult(keys, lat, lon, name) ==
    [keys |-> keys, latitude |-> lat, longitude |-> lon, name |-> name]
TripleKeys == {"latitude", "longitude", "name"}
GeoResults ==
    {GeoResult(TripleKeys, 515085, 0 - 1257, "London"),
     GeoResult(TripleKeys, 407143, 0 - 740060, "New York")}

GeoBody(keys, results) == [valid |-> TRUE, keys |-> keys, results |-> results]
InvalidGeoBody == [valid |-> FALSE, keys |-> {}, results |-> <<>>]

(* What requests.get(<geocoding search>) can produce: a transport error,   *)
(* a non-200 status, a body that is not JSON, an                           *)
(* object without 'results', an empty results array, a result without its  *)
(* 'latitude', or one complete result.                                      *)
GeoResponses ==
    {Response(TRUE, 0, InvalidGeoBody),
     Response(FALSE, 500,
              GeoBody({"results"}, <<GeoResult(TripleKeys, 515085, 0 - 1257, "London")>>)),
     Response(FALSE, 200, InvalidGeoBody),
     Response(FALSE, 200, GeoBody({"generationtime_ms"}, <<>>)),
     Response(FALSE, 200, GeoBody({"results"}, <<>>)),
     Response(FALSE, 200,
              GeoBody({"results"},
                      <<GeoResult({"longitude", "name"}, 0, 0 - 1257, "London")>>))}
    \cup {Response(FALSE, 200, GeoBody({"results"}, <<g>>)) : g \in GeoResults}

(* The i-th entry of the arrays 'time' (an ISO text, here its date and     *)
(* hour), 'relative_humidity_2m' and 'precipitation' of a forecast.        *)
IsoTime(i) == [date |-> 2 + ((i - 1) \div 24), hour |-> (i - 1) % 24]
Humidity(i) == Num(50 + i)
Precipitation(i) == Num(i - 1)
JsonTemperatures == {Num(10), Num(20)}

HourlyBody(time, temp, hum, prec) ==
    [valid |-> TRUE, keys |-> {"hourly"},
     hourly |-> [time |-> time, temperature_2m |-> temp,
                 relative_humidity_2m |-> hum, precipitation |-> prec]]
InvalidHourlyBody ==
    [valid |-> FALSE, keys |-> {},
     hourly |-> [time |-> <<>>, temperature_2m |-> <<>>,
                 relative_humidity_2m |-> <<>>, precipitation |-> <<>>]]

(* The payloads {"hourly": {...}} whose four arrays have at most MaxHours  *)
(* entries each, of equal or of different lengths, and one whose           *)
(* temperature is not a number.                                             *)
HourlyBodies ==
    {HourlyBody(<<IsoTime(1)>>, <<Str("n/a")>>, <<Humidity(1)>>, <<Precipitation(1)>>)}
    \cup
    {HourlyBody([i \in 1 .. lt |-> IsoTime(i)], temp,
                [i \in 1 .. lh |-> Humidity(i)],
                [i \in 1 .. lp |-> Precipitation(i)]) :
        lt \in 0 .. MaxHours, lh \in 0 .. MaxHours, lp \in 0 .. MaxHours,
        temp \in UNION {[1 .. n -> JsonTemperatures] : n \in 0 .. MaxHours}}

(* What requests.get(WEATHER_API) can produce. *)
ForecastResponses ==
    {Response(TRUE, 0, InvalidHourlyBody),
     Response(FALSE, 500,
              HourlyBody(<<IsoTime(1)>>, <<Num(10)>>, <<Humidity(1)>>,
                         <<Precipitation(1)>>)),
     Response(FALSE, 200, InvalidHourlyBody),
     Response(FALSE, 200, [InvalidHourlyBody EXCEPT !.valid = TRUE, !.keys = {"error"}])}
    \cup {Response(FALSE, 200, b) : b \in HourlyBodies}

(* np.random.randn(): the draws of the model. *)
RandnDraws == {0 - 1, 1}

----------------------------------------------------------------------------
(* fetch_crypto_data *)

(* The body of the try block raises: the request itself, response.json(),  *)
(* the lookup of 'prices', or pd.DataFrame(prices, columns=[2 names]).     *)
CryptoRaises(r) ==
    \/ r.exc
    \/ /\ r.status = 200
       /\ \/ ~r.body.valid
          \/ "prices" \notin r.body.keys
          \/ \E i \in 1 .. Len(r.body.prices) : Len(r.body.prices[i]) # 2

(* The frame of one coin: one row per pair, in the order of the payload.   *)
CryptoFrame(coin, prices) ==
    [i \in 1 .. Len(prices) |->
        [timestamp |-> ToDatetimeMs(prices[i][1].v),
         price |-> prices[i][2],
         coin |-> Capitalize(coin)]]

(* CryptoAppend without the test of the status code. *)
CryptoAppendAnyStatus(frames, coin, r) ==
    IF ~r.exc /\ r.body.valid /\ "prices" \in r.body.keys
       /\ \A i \in 1 .. Len(r.body.prices) : Len(r.body.prices[i]) = 2
    THEN Append(frames, CryptoFrame(coin, r.body.prices))
    ELSE frames

(* The effect of one iteration of the loop on the list 'data'. *)
CryptoAppend(frames, coin, r) ==
    IF ~CryptoRaises(r) /\ r.status = 200
    THEN Append(frames, CryptoFrame(coin, r.body.prices))
    ELSE frames

RowCount(frames) == Len(Concat(frames))

(* The loop index after an iteration that issued the failed request again. *)
NextCoinRetry(i, r) == IF CryptoRaises(r) \/ r.status # 200 THEN i ELSE i + 1

(* for coin in coins: the next iteration takes the next coin, whatever the *)
(* request of this one gave.                                                *)
NextCoin(i, r) == i + 1

----------------------------------------------------------------------------
(* get_coordinates and fetch_weather_data *)

(* The body of the try block of get_coordinates raises. *)
GeoRaises(r) ==
    \/ r.exc
    \/ /\ r.status = 200
       /\ \/ ~r.body.valid
          \/ /\ "results" \in r.body.keys
             /\ Len(r.body.results) > 0
             /\ ~(TripleKeys \subseteq r.body.results[1].keys)

Triple(lat, lon, name) == [latitude |-> lat, longitude |-> lon, name |-> name]

(* get_coordinates without the test of the status code. *)
get_coordinates_any_status(r) ==
    IF /\ ~r.exc
       /\ r.body.valid
       /\ "results" \in r.body.keys
       /\ Len(r.body.results) > 0
       /\ TripleKeys \subseteq r.body.results[1].keys
    THEN LET res == r.body.results[1]
         IN  Triple(res.latitude, res.longitude, res.name)
    ELSE DefaultCoordinates

(* get_coordinates(location_name) when the lookup answers r. *)
get_coordinates(r) ==
    IF /\ ~GeoRaises(r)
       /\ r.status = 200
       /\ "results" \in r.body.keys
       /\ Len(r.body.results) > 0
    THEN LET res == r.body.results[1]
         IN  Triple(res.latitude, res.longitude, res.name)
    ELSE DefaultCoordinates

(* pd.to_datetime(<ISO text>): the calendar instant the text names. *)
ToDatetimeIso(s) == [day |-> s.date, ms |-> s.hour * MsPerHour]

(* pd.DataFrame({...}) of lists raises ValueError unless all the lists     *)
(* have the same length.                                                    *)
SameLength(h) ==
    /\ Len(h.temperature_2m) = Len(h.time)
    /\ Len(h.relative_humidity_2m) = Len(h.time)
    /\ Len(h.precipitation) = Len(h.time)

(* The body of the try block of fetch_weather_data raises. *)
ForecastRaises(r) ==
    \/ r.exc
    \/ /\ r.status = 200
       /\ \/ ~r.body.valid
          \/ "hourly" \notin r.body.keys
          \/ ~SameLength(r.body.hourly)

(* WeatherFrame with the humidity column filled from 'precipitation'. *)
WeatherFrameMixedColumns(h, resolved_name) ==
    [i \in 1 .. Len(h.time) |->
        [time |-> ToDatetimeIso(h.time[i]),
         temperature |-> h.temperature_2m[i],
         humidity |-> h.precipitation[i],
         precipitation |-> h.precipitation[i],
         location |-> resolved_name]]

(* The frame built from the 'hourly' object h. *)
WeatherFrame(h, resolved_name) ==
    [i \in 1 .. Len(h.time) |->
        [time |-> ToDatetimeIso(h.time[i]),
         temperature |-> h.temperature_2m[i],
         humidity |-> h.relative_humidity_2m[i],
         precipitation |-> h.precipitation[i],
         location |-> resolved_name]]

(* fetch_weather_data without the test of the status code. *)
fetch_weather_data_any_status(r, resolved_name) ==
    IF ~r.exc /\ r.body.valid /\ "hourly" \in r.body.keys /\ SameLength(r.body.hourly)
    THEN WeatherFrame(r.body.hourly, resolved_name)
    ELSE <<>>

(* fetch_weather_data building its rows with zip(), which stops at the     *)
(* shortest array.                                                          *)
fetch_weather_data_zip(r, resolved_name) ==
    IF ~r.exc /\ r.status = 200 /\ r.body.valid /\ "hourly" \in r.body.keys
    THEN LET h == r.body.hourly
             n == Min(Min(Len(h.time), Len(h.temperature_2m)),
                      Min(Len(h.relative_humidity_2m), Len(h.precipitation)))
         IN  WeatherFrame([h EXCEPT !.time = SubSeq(h.time, 1, n)], resolved_name)
    ELSE <<>>

(* The table fetch_weather_data returns when the forecast answers r. *)
fetch_weather_data(r, resolved_name) ==
    IF ~ForecastRaises(r) /\ r.status = 200
    THEN WeatherFrame(r.body.hourly, resolved_name)
    ELSE <<>>

----------------------------------------------------------------------------
(* generate_mock_stock_data *)

RECURSIVE Sum(_)
Sum(x) == IF x = <<>> THEN 0 ELSE Head(x) + Sum(Tail(x))

(* np.cumsum(x) *)
CumSum(x) == [i \in 1 .. Len(x) |-> Sum(SubSeq(x, 1, i))]

(* pd.date_range(end=end, periods=periods, freq='D') *)
DateRange(end, periods) ==
    [i \in 1 .. periods |-> ToDatetimeMs(end - (periods - i) * MsPerDay)]

(* base_prices.get(symbol, 100) *)
BasePrice(symbol) ==
    IF symbol \in DOMAIN base_prices THEN base_prices[symbol] ELSE DefaultBase

(* The frame of one symbol, the clock reading t and the draws of randn. *)
StockFrame(symbol, days, t, draws) ==
    LET dates == DateRange(t, days)
        steps == CumSum([i \in 1 .. days |-> draws[i] * StepScale])
    IN  [i \in 1 .. days |->
           [date |-> dates[i],
            price |-> Num(BasePrice(symbol) + steps[i]),
            symbol |-> symbol]]

----------------------------------------------------------------------------
(* Figures, cards and the statistics of update_*_dashboard *)

COLORS == [primary |-> "#3b82f6", secondary |-> "#8b5cf6", accent |-> "#10b981"]
colors_list == <<COLORS.primary, COLORS.secondary, COLORS.accent>>

Figure(kind, title, x, y) == [kind |-> kind, title |-> title, x |-> x, y |-> y]

NoResult == [cards |-> <<>>, main |-> Figure("none", "", <<>>, <<>>),
             sec1 |-> Figure("none", "", <<>>, <<>>),
             sec2 |-> Figure("none", "", <<>>, <<>>),
             stamp |-> Strftime(0), returned |-> FALSE]

(* create_empty_dashboard(message), returning at clock value t. *)
create_empty_dashboard(message, t) ==
    LET empty_fig == Figure("annotation", message, <<>>, <<>>)
    IN  [cards |-> <<>>, main |-> empty_fig, sec1 |-> empty_fig,
         sec2 |-> empty_fig, stamp |-> Strftime(t), returned |-> TRUE]

(* IsEmpty when the emptiness test is left out. *)
IsEmptyNever(t) == FALSE

(* df.empty *)
IsEmpty(t) == Len(t) = 0

(* df.groupby(col): the labels of the table, in sorted order. *)
GroupKeys(t, col) ==
    SelectSeq(SortedLabels, LAMBDA l : \E i \in 1 .. Len(t) : t[i][col] = l)

RECURSIVE Unique(_, _)
(* df[col].unique(): the labels of the table, in order of first appearance. *)
Unique(t, col) ==
    IF t = <<>> THEN <<>>
    ELSE LET l == t[1][col]
         IN  <<l>> \o Unique(SelectSeq(Tail(t), LAMBDA r : r[col] # l), col)

(* df[df[col] == label]['price']: the prices of one label, in table order. *)
PricesOf(t, col, label) ==
    LET rows == SelectSeq(t, LAMBDA r : r[col] = label)
    IN  [i \in 1 .. Len(rows) |-> rows[i].price.v]

(* LastStepChange that reports no change when there is no previous row. *)
LastStepChangeZero(x) ==
    IF Len(x) < 2 THEN Frac(0, 1)
    ELSE Div((x[Len(x)] - x[Len(x) - 1]) * 100, x[Len(x) - 1])

(* x.pct_change().iloc[-1] * 100: NaN when there is no previous row. *)
LastStepChange(x) ==
    IF Len(x) < 2 THEN NaN
    ELSE Div((x[Len(x)] - x[Len(x) - 1]) * 100, x[Len(x) - 1])

(* TotalChange dividing by the last value instead of the first. *)
TotalChangeOverLast(x) == Div((x[Len(x)] - x[1]) * 100, x[Len(x)])

(* (x.iloc[-1] - x.iloc[0]) / x.iloc[0] * 100 *)
TotalChange(x) == Div((x[Len(x)] - x[1]) * 100, x[1])

(* The stat cards, one per label of groupby(col)['price'].last(). *)
StatCards(t, col) ==
    LET latest_prices == GroupKeys(t, col)
    IN  [i \in 1 .. Len(latest_prices) |->
           LET label == latest_prices[i]
               price_change == LastStepChange(PricesOf(t, col, label))
           IN  [title |-> label,
                value |-> Last(PricesOf(t, col, label)),
                price_change |-> price_change,
                change |-> FormatFixed(price_change, 100),
                className |-> IF Positive(price_change)
                              THEN "card-change positive"
                              ELSE "card-change negative",
                borderColor |-> colors_list[((i - 1) % 3) + 1]]]

(* ChangeValues with the groups taken in order of first appearance. *)
ChangeValuesByAppearance(t, col) ==
    LET keys == Unique(t, col)
    IN  [i \in 1 .. Len(keys) |-> TotalChange(PricesOf(t, col, keys[i]))]

(* df.groupby(col)['price'].apply(<whole-range change>).values *)
ChangeValues(t, col) ==
    LET keys == GroupKeys(t, col)
    IN  [i \in 1 .. Len(keys) |-> TotalChange(PricesOf(t, col, keys[i]))]

(* latest_data = df.groupby(col).last().reset_index() with the column      *)
(* 'change' assigned by position, drawn as the bar chart.                   *)
ChangeBars(t, col) ==
    Figure("bar", "Total Change (%)", GroupKeys(t, col), ChangeValues(t, col))

(* The numeric operations of the statistics raise TypeError on a price     *)
(* that is not a number.                                                    *)
PriceStatsRaise(t) == \E i \in 1 .. Len(t) : ~IsNum(t[i].price)

(* update_crypto_dashboard after its emptiness test, returning at t. *)
CryptoResult(t_df, days, t) ==
    [cards |-> StatCards(t_df, "coin"),
     main |-> Figure("line", "Cryptocurrency Prices", Unique(t_df, "coin"), <<days>>),
     sec1 |-> Figure("scatter", "Price Distribution", Unique(t_df, "coin"), <<>>),
     sec2 |-> ChangeBars(t_df, "coin"),
     stamp |-> Strftime(t), returned |-> TRUE]

(* df[col].mean() and df[col].sum() *)
Column(t, col) == [i \in 1 .. Len(t) |-> t[i][col].v]
Mean(x) == Div(Sum(x), Len(x))

(* df['temperature'] raises KeyError on a table without columns; mean()   *)
(* and sum() raise TypeError on a value that is not a number.               *)
WeatherStatsRaise(t) ==
    \/ Len(t) = 0
    \/ \E i \in 1 .. Len(t) :
        ~IsNum(t[i].temperature) \/ ~IsNum(t[i].humidity) \/ ~IsNum(t[i].precipitation)

(* update_weather_dashboard after its emptiness test, returning at t. *)
WeatherResult(t_df, days, t) ==
    LET location_name == t_df[1].location
        avg_temp == Mean(Column(t_df, "temperature"))
        avg_humidity == Mean(Column(t_df, "humidity"))
        total_precip == Frac(Sum(Column(t_df, "precipitation")), 1)
        Card(title, value, subtitle, color) ==
            [title |-> title, value |-> FormatFixed(value, 10),
             subtitle |-> subtitle, borderColor |-> color]
    IN  [cards |-> <<Card("Avg Temperature", avg_temp, location_name, COLORS.primary),
                     Card("Avg Humidity", avg_humidity, "Next days", COLORS.secondary),
                     Card("Total Precipitation", total_precip, "Next days", COLORS.accent)>>,
         main |-> Figure("line", "Temperature Forecast", <<location_name>>, <<days>>),
         sec1 |-> Figure("area", "Humidity Levels", <<>>, <<>>),
         sec2 |-> Figure("bar", "Precipitation", <<>>, <<>>),
         stamp |-> Strftime(t), returned |-> TRUE]

(* update_stocks_dashboard, returning at t. *)
StocksResult(t_df, days, t) ==
    [cards |-> StatCards(t_df, "symbol"),
     main |-> Figure("line", "Stock Prices", Unique(t_df, "symbol"), <<days>>),
     sec1 |-> Figure("area", "Price Distribution", Unique(t_df, "symbol"), <<>>),
     sec2 |-> ChangeBars(t_df, "symbol"),
     stamp |-> Strftime(t), returned |-> TRUE]

----------------------------------------------------------------------------
(* The refresh *)

(* The model starts one millisecond before a midnight. *)
StartClock == 10 * MsPerDay - 1

(* datetime.now(): a reading of the clock, which does not go back: the     *)
(* instant of the last reading, or MaxElapsed milliseconds after the start. *)
Now == {t \in {clock, StartClock + MaxElapsed} : t >= clock}

Idle == pc \in {"idle", "done", "raised"}

(* LocationOr testing only for None. *)
LocationOrNotNone(loc) == IF loc.t = "str" THEN loc.v ELSE "New York"

(* location or "New York" *)
LocationOr(loc) == IF loc.t = "str" /\ loc.v # "" THEN loc.v ELSE "New York"

Call(op, api, arg, days) == [op |-> op, api |-> api, arg |-> arg, days |-> days]

(* update_dashboard(n_clicks, n_intervals, data_type, time_range, location) *)
(* up to the first request of the pipeline it selects.                      *)
update_dashboard(dt, tr, loc) ==
    /\ data_type' = dt
    /\ time_range' = tr
    /\ location' = loc
    /\ pc' = CASE dt = "crypto" -> "fetch_crypto_data"
               [] dt = "weather" -> "get_coordinates"
               [] OTHER -> "generate_mock_stock_data"
    /\ log' = CASE dt = "crypto" -> <<Call("call", "fetch_crypto_data", "", tr)>>
                [] dt = "weather" ->
                     <<Call("call", "fetch_weather_data", LocationOr(loc), tr)>>
                [] OTHER -> <<Call("call", "generate_mock_stock_data", "", tr)>>
    /\ coinIdx' = 1
    /\ data' = <<>>
    /\ df' = <<>>
    /\ coords' = DefaultCoordinates
    /\ responses' = <<>>
    /\ result' = NoResult
    /\ UNCHANGED clock

(* The refresh button is clicked or the 5-minute interval fires. *)
RefreshTrigger ==
    /\ Idle
    /\ update_dashboard(data_type, time_range, location)

ChangeDataType ==
    /\ Idle
    /\ \E dt \in {"crypto", "weather", "stocks"} \ {data_type} :
          update_dashboard(dt, time_range, location)

ChangeTimeRange ==
    /\ Idle
    /\ \E tr \in Days \ {time_range} : update_dashboard(data_type, tr, location)

ChangeLocation ==
    /\ Idle
    /\ \E loc \in Locations \ {location} :
          update_dashboard(data_type, time_range, loc)

(* One iteration of the loop of fetch_crypto_data. *)
CryptoRequest ==
    /\ pc = "fetch_crypto_data"
    /\ coinIdx <= Len(Coins)
    /\ \E r \in CryptoResponses(MaxRows - RowCount(data)) :
          /\ responses' = Append(responses, r)
          /\ data' = CryptoAppend(data, Coins[coinIdx], r)
          /\ coinIdx' = NextCoin(coinIdx, r)
    /\ log' = Append(log, Call("GET", "market_chart", Coins[coinIdx], time_range))
    /\ UNCHANGED <<data_type, time_range, location, pc, clock, coords, df, result>>

(* The return of fetch_crypto_data and the rest of update_crypto_dashboard. *)
CryptoDashboard ==
    /\ pc = "fetch_crypto_data"
    /\ coinIdx > Len(Coins)
    /\ df' = Concat(data)
    /\ IF IsEmpty(df')
       THEN \E t \in Now :
               /\ clock' = t
               /\ result' = create_empty_dashboard("No crypto data available", t)
               /\ pc' = "done"
               /\ log' = log
       ELSE IF PriceStatsRaise(df')
       THEN /\ pc' = "raised"
            /\ log' = Append(log, Call("stats", "update_crypto_dashboard", "", time_range))
            /\ UNCHANGED <<clock, result>>
       ELSE \E t \in Now :
               /\ clock' = t
               /\ result' = CryptoResult(df', time_range, t)
               /\ pc' = "done"
               /\ log' = Append(log, Call("stats", "update_crypto_dashboard", "", time_range))
    /\ UNCHANGED <<data_type, time_range, location, coinIdx, data, coords, responses>>

(* get_coordinates(location_name), the first statement of                   *)
(* fetch_weather_data.                                                      *)
GeocodeRequest ==
    /\ pc = "get_coordinates"
    /\ \E r \in GeoResponses :
          /\ responses' = Append(responses, r)
          /\ coords' = get_coordinates(r)
    /\ log' = Append(log, Call("GET", "geocoding", LocationOr(location), time_range))
    /\ pc' = "fetch_weather_data"
    /\ UNCHANGED <<data_type, time_range, location, clock, coinIdx, data, df, result>>

(* params = {'latitude': latitude, 'longitude': longitude, ...} *)
ForecastParams(c) == [latitude |-> c.latitude, longitude |-> c.longitude]

(* The forecast request and the rest of fetch_weather_data. *)
ForecastRequest ==
    /\ pc = "fetch_weather_data"
    /\ \E r \in ForecastResponses :
          /\ responses' = Append(responses, r)
          /\ df' = fetch_weather_data(r, coords.name)
    /\ log' = Append(log, Call("GET", "forecast", ForecastParams(coords), time_range))
    /\ pc' = "update_weather_dashboard"
    /\ UNCHANGED <<data_type, time_range, location, clock, coinIdx, data, coords, result>>

(* update_weather_dashboard once fetch_weather_data has returned. *)
WeatherDashboard ==
    /\ pc = "update_weather_dashboard"
    /\ IF IsEmpty(df)
       THEN \E t \in Now :
               /\ clock' = t
               /\ result' = create_empty_dashboard("No weather data available", t)
               /\ pc' = "done"
               /\ log' = log
       ELSE IF WeatherStatsRaise(df)
       THEN /\ pc' = "raised"
            /\ log' = Append(log, Call("stats", "update_weather_dashboard", "", time_range))
            /\ UNCHANGED <<clock, result>>
       ELSE \E t \in Now :
               /\ clock' = t
               /\ result' = WeatherResult(df, time_range, t)
               /\ pc' = "done"
               /\ log' = Append(log, Call("stats", "update_weather_dashboard", "", time_range))
    /\ UNCHANGED <<data_type, time_range, location, coinIdx, data, coords, df, responses>>

(* One iteration of the loop of generate_mock_stock_data. *)
StockSymbol ==
    /\ pc = "generate_mock_stock_data"
    /\ coinIdx <= Len(Symbols)
    /\ \E t \in Now, draws \in [1 .. time_range -> RandnDraws] :
          /\ clock' = t
          /\ data' = Append(data, StockFrame(Symbols[coinIdx], time_range, t, draws))
    /\ coinIdx' = coinIdx + 1
    /\ UNCHANGED <<data_type, time_range, location, pc, coords, df, responses, log, result>>

(* The return of generate_mock_stock_data and the rest of                   *)
(* update_stocks_dashboard.                                                 *)
StocksDashboard ==
    /\ pc = "generate_mock_stock_data"
    /\ coinIdx > Len(Symbols)
    /\ df' = Concat(data)
    /\ \E t \in Now :
          /\ clock' = t
          /\ result' = StocksResult(df', time_range, t)
    /\ pc' = "done"
    /\ log' = Append(log, Call("stats", "update_stocks_dashboard", "", time_range))
    /\ UNCHANGED <<data_type, time_range, location, coinIdx, data, coords, responses>>

Init ==
    /\ data_type = "crypto"
    /\ time_range \in Days
    /\ location = Str("New York")
    /\ pc = "idle"
    /\ clock = StartClock
    /\ coinIdx = 1
    /\ data = <<>>
    /\ coords = DefaultCoordinates
    /\ df = <<>>
    /\ responses = <<>>
    /\ log = <<>>
    /\ result = NoResult

Next ==
    \/ RefreshTrigger
    \/ ChangeDataType
    \/ ChangeTimeRange
    \/ ChangeLocation
    \/ CryptoRequest
    \/ CryptoDashboard
    \/ GeocodeRequest
    \/ ForecastRequest
    \/ WeatherDashboard
    \/ StockSymbol
    \/ StocksDashboard

Spec == Init /\ [][Next]_vars

----------------------------------------------------------------------------
(* Properties *)

Finished == pc \in {"done", "raised"}

(* The 'no data available' result: no card and one annotation figure in    *)
(* the three chart slots.                                                   *)
IsPlaceholder(res, message) ==
    /\ res.returned
    /\ res.cards = <<>>
    /\ res.main.kind = "annotation"
    /\ res.main.title = message
    /\ res.sec1 = res.main
    /\ res.sec2 = res.main

StatsRan == \E i \in 1 .. Len(log) : log[i].op = "stats"

(* A market-chart request succeeded: status 200 and a list of pairs. *)
CoinSucceeded(r) ==
    /\ ~r.exc
    /\ r.status = 200
    /\ r.body.valid
    /\ "prices" \in r.body.keys
    /\ \A i \in 1 .. Len(r.body.prices) : Len(r.body.prices[i]) = 2

(* The number of rows the coins before the k-th one contribute. *)
RECURSIVE RowsBefore(_)
RowsBefore(k) ==
    IF k <= 1 THEN 0
    ELSE RowsBefore(k - 1)
         + (IF CoinSucceeded(responses[k - 1])
            THEN Len(responses[k - 1].body.prices) ELSE 0)

(* C1: whatever the outcome of each market-chart request, the table         *)
(* fetch_crypto_data returns is the concatenation, in coin order, of the   *)
(* rows of the coins that succeeded: one row per [epoch_ms, price] pair in *)
(* upstream order, labelled with the capitalized coin name; a failed coin  *)
(* contributes no row, and the table is empty when every coin fails.       *)
CryptoTableIsConcatenation ==
    (data_type = "crypto" /\ Finished) =>
        /\ Len(responses) = Len(Coins)
        /\ Len(df) = RowsBefore(Len(Coins) + 1)
        /\ \A k \in 1 .. Len(Coins) :
              CoinSucceeded(responses[k]) =>
                 \A i \in 1 .. Len(responses[k].body.prices) :
                    LET row == df[RowsBefore(k) + i]
                        pair == responses[k].body.prices[i]
                    IN  /\ row.coin = <<"Bitcoin", "Ethereum", "Cardano">>[k]
                        /\ row.price = pair[2]
                        /\ row.timestamp.ms \in 0 .. MsPerDay - 1
                        /\ row.timestamp.day * MsPerDay + row.timestamp.ms = pair[1].v

(* A refresh where the first coin failed and the two others gave rows. *)
CryptoPartialFailure ==
    /\ data_type = "crypto"
    /\ pc = "done"
    /\ ~CoinSucceeded(responses[1])
    /\ CoinSucceeded(responses[2]) /\ Len(responses[2].body.prices) = 2
    /\ CoinSucceeded(responses[3]) /\ Len(responses[3].body.prices) = 1
    /\ Len(df) = 3
    /\ df[1].coin = "Ethereum"
    /\ df[3].coin = "Cardano"

(* C2: when the table of the selected pipeline is empty the refresh         *)
(* returns the placeholder (no card, the same 'no data available' figure   *)
(* in the three slots) and computes no statistic on the table.             *)
EmptyTableGivesPlaceholder ==
    (Finished /\ df = <<>>) =>
        /\ pc = "done"
        /\ ~StatsRan
        /\ \/ data_type = "crypto" /\ IsPlaceholder(result, "No crypto data available")
           \/ data_type = "weather" /\ IsPlaceholder(result, "No weather data available")

(* Every per-coin request failed and the placeholder was returned. *)
AllCoinsFailedPlaceholder ==
    /\ data_type = "crypto"
    /\ pc = "done"
    /\ \A k \in 1 .. Len(Coins) : ~CoinSucceeded(responses[k])
    /\ IsPlaceholder(result, "No crypto data available")

(* The geocoding lookup gave a first result with its three fields. *)
GeoSucceeded(r) ==
    /\ ~r.exc
    /\ r.status = 200
    /\ r.body.valid
    /\ "results" \in r.body.keys
    /\ Len(r.body.results) > 0
    /\ {"latitude", "longitude", "name"} \subseteq r.body.results[1].keys

GeocodeReturned ==
    data_type = "weather" /\ pc \notin {"idle", "get_coordinates"}

(* C3: get_coordinates returns the triple of the first result when the     *)
(* status is 200 and the results array is not empty, and exactly           *)
(* (40.7128, -74.0060, "New York") in every other case; it never raises.   *)
GeocodeFallback ==
    GeocodeReturned =>
        /\ Len(responses) >= 1
        /\ IF GeoSucceeded(responses[1])
           THEN /\ coords.latitude = responses[1].body.results[1].latitude
                /\ coords.longitude = responses[1].body.results[1].longitude
                /\ coords.name = responses[1].body.results[1].name
           ELSE /\ coords.latitude = 407128
                /\ coords.longitude = 0 - 740060
                /\ coords.name = "New York"

(* A lookup that answered 200 with an empty results array. *)
GeocodeEmptyResults ==
    /\ GeocodeReturned
    /\ responses[1].status = 200
    /\ responses[1].body.valid
    /\ "results" \in responses[1].body.keys
    /\ responses[1].body.results = <<>>
    /\ coords.name = "New York"

ForecastReturned ==
    data_type = "weather" /\ pc \in {"update_weather_dashboard", "done", "raised"}

(* The forecast request failed: transport error, non-200 status, a body    *)
(* that cannot be read or has no 'hourly' object.                           *)
ForecastFailed(r) ==
    \/ r.exc
    \/ r.status # 200
    \/ ~r.body.valid
    \/ "hourly" \notin r.body.keys

(* C4: when the forecast request fails fetch_weather_data returns an empty *)
(* table, whatever the geocoding lookup gave, and the refresh shows the    *)
(* 'No weather data available' placeholder.                                 *)
ForecastFailureGivesEmptyTable ==
    (ForecastReturned /\ ForecastFailed(responses[2])) =>
        /\ df = <<>>
        /\ pc # "raised"
        /\ pc = "done" => IsPlaceholder(result, "No weather data available")

(* The lookup resolved London, the forecast answered 500 with a payload. *)
ForecastFailedAfterGeocode ==
    /\ ForecastReturned
    /\ pc = "done"
    /\ GeoSucceeded(responses[1])
    /\ coords.name = "London"
    /\ responses[2].status = 500
    /\ responses[2].body.valid
    /\ IsPlaceholder(result, "No weather data available")

(* The forecast answered 200 with four arrays of the same length. *)
ForecastAligned(r) ==
    /\ ~ForecastFailed(r)
    /\ Len(r.body.hourly.temperature_2m) = Len(r.body.hourly.time)
    /\ Len(r.body.hourly.relative_humidity_2m) = Len(r.body.hourly.time)
    /\ Len(r.body.hourly.precipitation) = Len(r.body.hourly.time)

(* C5: on a successful forecast whose four arrays have the same length n   *)
(* the table has n rows, row i holding time[i], temperature_2m[i],         *)
(* relative_humidity_2m[i] and precipitation[i], every row tagged with the *)
(* name get_coordinates returned.                                           *)
WeatherRowsZippedByIndex ==
    (ForecastReturned /\ ForecastAligned(responses[2])) =>
        LET h == responses[2].body.hourly
        IN  /\ Len(df) = Len(h.time)
            /\ \A i \in 1 .. Len(h.time) :
                  /\ df[i].time.day = h.time[i].date
                  /\ df[i].time.ms = h.time[i].hour * MsPerHour
                  /\ df[i].temperature = h.temperature_2m[i]
                  /\ df[i].humidity = h.relative_humidity_2m[i]
                  /\ df[i].precipitation = h.precipitation[i]
                  /\ df[i].location = coords.name

(* Two aligned hours, tagged with the resolved name London. *)
WeatherTwoRows ==
    /\ ForecastReturned
    /\ ForecastAligned(responses[2])
    /\ Len(responses[2].body.hourly.time) = 2
    /\ responses[2].body.hourly.temperature_2m = <<Num(10), Num(20)>>
    /\ Len(df) = 2
    /\ df[2].temperature = Num(20)
    /\ df[1].location = "London"
    /\ location = Str("New York")

(* The forecast answered 200 with arrays of different lengths. *)
ForecastMismatched(r) == ~ForecastFailed(r) /\ ~ForecastAligned(r)

ShortestArray(h) ==
    Min(Min(Len(h.time), Len(h.temperature_2m)),
        Min(Len(h.relative_humidity_2m), Len(h.precipitation)))

(* C6, as claimed: on arrays of different lengths fetch_weather_data       *)
(* truncates to the shortest array, one index-aligned row for each index   *)
(* below the shortest length.                                               *)
MismatchTruncatesToShortest ==
    (ForecastReturned /\ ForecastMismatched(responses[2])) =>
        LET h == responses[2].body.hourly
        IN  /\ Len(df) = ShortestArray(h)
            /\ \A i \in 1 .. ShortestArray(h) :
                  /\ df[i].temperature = h.temperature_2m[i]
                  /\ df[i].humidity = h.relative_humidity_2m[i]
                  /\ df[i].precipitation = h.precipitation[i]

(* C6, amended: on arrays of different lengths fetch_weather_data returns  *)
(* an empty table (no row at all, hence no row with a missing field) and   *)
(* the refresh shows the 'No weather data available' placeholder.          *)
MismatchGivesEmptyTable ==
    (ForecastReturned /\ ForecastMismatched(responses[2])) =>
        /\ df = <<>>
        /\ pc # "raised"
        /\ pc = "done" => IsPlaceholder(result, "No weather data available")

(* Two timestamps and two temperatures, one humidity, one precipitation. *)
MismatchedArraysDropped ==
    /\ ForecastReturned
    /\ pc = "done"
    /\ ForecastMismatched(responses[2])
    /\ Len(responses[2].body.hourly.time) = 2
    /\ Len(responses[2].body.hourly.temperature_2m) = 2
    /\ ShortestArray(responses[2].body.hourly) = 1
    /\ df = <<>>

(* C7: generate_mock_stock_data makes no external call and returns N rows  *)
(* per symbol in symbol order; the dates of a symbol are N consecutive     *)
(* days whose last one is today, and every symbol gets the same N dates.   *)
StockDatesEndTodayForEverySymbol ==
    (data_type = "stocks" /\ pc = "done") =>
        LET N == time_range
            today == clock \div MsPerDay
        IN  /\ \A i \in 1 .. Len(log) : log[i].op # "GET"
            /\ Len(df) = N * Len(Symbols)
            /\ \A k \in 1 .. Len(Symbols) : \A i \in 1 .. N :
                  /\ df[(k - 1) * N + i].symbol = Symbols[k]
                  /\ df[(k - 1) * N + i].date.day = today - (N - i)
                  /\ df[(k - 1) * N + i].date.day = df[i].date.day

Blank(loc) == loc.t = "none" \/ (loc.t = "str" /\ loc.v = "")

(* C8: a refresh runs the pipeline of the selected mode and no other, with *)
(* the current day-count; the weather pipeline is called with the location *)
(* text, or with "New York" when the text is empty or absent.              *)
SelectedPipelineOnly ==
    (pc # "idle") =>
        /\ Len(log) >= 1
        /\ log[1].op = "call"
        /\ log[1].days = time_range
        /\ \A i \in 2 .. Len(log) : log[i].op # "call"
        /\ data_type = "crypto" =>
              /\ log[1].api = "fetch_crypto_data"
              /\ \A i \in 2 .. Len(log) :
                    log[i].op = "GET" =>
                       log[i].api = "market_chart" /\ log[i].days = time_range
        /\ data_type = "weather" =>
              /\ log[1].api = "fetch_weather_data"
              /\ log[1].arg = (IF Blank(location) THEN "New York" ELSE location.v)
              /\ \A i \in 2 .. Len(log) :
                    log[i].op = "GET" => log[i].api \in {"geocoding", "forecast"}
        /\ data_type = "stocks" =>
              /\ log[1].api = "generate_mock_stock_data"
              /\ \A i \in 2 .. Len(log) : log[i].op # "GET"

(* A weather refresh with an empty location text. *)
WeatherBlankLocation ==
    /\ data_type = "weather"
    /\ pc = "done"
    /\ location = Str("")
    /\ log[1].arg = "New York"
    /\ Len(log) >= 3

(* The upstream series of the k-th coin or symbol, <<>> when it gave none. *)
UpstreamSeries(k) ==
    IF data_type = "crypto"
    THEN IF CoinSucceeded(responses[k])
         THEN [i \in 1 .. Len(responses[k].body.prices) |->
                  responses[k].body.prices[i][2].v]
         ELSE <<>>
    ELSE [i \in 1 .. Len(data[k]) |-> data[k][i].price.v]

UpstreamLabel(k) ==
    IF data_type = "crypto" THEN <<"Bitcoin", "Ethereum", "Cardano">>[k]
    ELSE Symbols[k]

(* The float f is the quotient a / b. *)
IsQuotient(f, a, b) == f.k = "num" /\ f.d # 0 /\ f.n * b = a * f.d

(* C9: for every label with at least two rows, in crypto and stocks modes, *)
(* the whole-range change is (last - first) / first * 100 and the          *)
(* last-step change is (last - previous) / previous * 100, over the rows   *)
(* of that label in table order.                                            *)
PercentChanges ==
    (pc = "done" /\ data_type \in {"crypto", "stocks"} /\ df # <<>>) =>
        \A k \in 1 .. 3 :
           LET x == UpstreamSeries(k)
               n == Len(x)
           IN  n >= 2 =>
                 /\ \E i \in 1 .. Len(result.cards) :
                       /\ result.cards[i].title = UpstreamLabel(k)
                       /\ IsQuotient(result.cards[i].price_change,
                                     (x[n] - x[n - 1]) * 100, x[n - 1])
                 /\ \E j \in 1 .. Len(result.sec2.x) :
                       /\ result.sec2.x[j] = UpstreamLabel(k)
                       /\ IsQuotient(result.sec2.y[j], (x[n] - x[1]) * 100, x[1])

(* Bitcoin gave [100, 95, 110]: last step +15.79 %, whole range +10 %. *)
PercentChangeExample ==
    /\ data_type = "crypto"
    /\ pc = "done"
    /\ UpstreamSeries(1) = <<100, 95, 110>>
    /\ result.cards[1].title = "Bitcoin"
    /\ result.cards[1].change = [text |-> "num", units |-> 1579]
    /\ result.cards[1].className = "card-change positive"
    /\ result.sec2.x = <<"Bitcoin">>
    /\ IsQuotient(result.sec2.y[1], 10, 1)

(* C10: update_dashboard never raises: every refresh returns cards, three  *)
(* figures and a 'last updated' text stamped at that refresh.               *)
NoFatalErrorPath ==
    /\ pc # "raised"
    /\ pc = "done" =>
          /\ result.returned
          /\ result.main.kind # "none"
          /\ result.sec1.kind # "none"
          /\ result.sec2.kind # "none"
          /\ result.stamp.day = clock \div MsPerDay
          /\ result.stamp.second = (clock % MsPerDay) \div MsPerSecond

(* The requests of this refresh, in the order they were issued. *)
Requests == SelectSeq(log, LAMBDA c : c.op = "GET")

(* C11: no call is retried and the calls are sequential: a crypto refresh  *)
(* issues one market-chart request per coin, in coin order, whether or not *)
(* earlier ones failed; a weather refresh issues one geocoding request and *)
(* then one forecast request, which carries the fallback coordinates when  *)
(* the lookup failed.                                                       *)
OneRequestPerCallInOrder ==
    (pc # "idle") =>
        /\ Len(Requests) = Len(responses)
        /\ data_type = "crypto" =>
              /\ Len(Requests) <= 3
              /\ Finished => Len(Requests) = 3
              /\ \A i \in 1 .. Len(Requests) :
                    /\ Requests[i].api = "market_chart"
                    /\ Requests[i].arg = <<"bitcoin", "ethereum", "cardano">>[i]
        /\ data_type = "weather" =>
              /\ Len(Requests) <= 2
              /\ Len(Requests) >= 1 => Requests[1].api = "geocoding"
              /\ ForecastReturned => Len(Requests) = 2
              /\ Len(Requests) = 2 =>
                    /\ Requests[2].api = "forecast"
                    /\ Requests[2].days = time_range
                    /\ IF GeoSucceeded(responses[1])
                       THEN /\ Requests[2].arg.latitude
                                 = responses[1].body.results[1].latitude
                            /\ Requests[2].arg.longitude
                                 = responses[1].body.results[1].longitude
                       ELSE /\ Requests[2].arg.latitude = 407128
                            /\ Requests[2].arg.longitude = 0 - 740060

(* The first two market-chart requests failed and the third was issued. *)
FailedCoinsNotRetried ==
    /\ data_type = "crypto"
    /\ Finished
    /\ ~CoinSucceeded(responses[1])
    /\ ~CoinSucceeded(responses[2])
    /\ CoinSucceeded(responses[3])
    /\ Len(Requests) = 3
    /\ Requests[3].arg = "cardano"

(* The coins or symbols that gave at least one row. *)
LabelsWithRows == {k \in 1 .. 3 : UpstreamSeries(k) # <<>>}

(* C13: in crypto and stocks modes the whole-range change drawn next to a  *)
(* label in 'Total Change (%)' is the one computed from that label's own   *)
(* rows, and there is exactly one card and one bar per label that has at   *)
(* least one row.                                                           *)
ChangesBelongToTheirLabels ==
    (pc = "done" /\ data_type \in {"crypto", "stocks"} /\ df # <<>>) =>
        /\ Len(result.cards) = Cardinality(LabelsWithRows)
        /\ Len(result.sec2.x) = Cardinality(LabelsWithRows)
        /\ Len(result.sec2.y) = Cardinality(LabelsWithRows)
        /\ \A k \in LabelsWithRows :
              LET x == UpstreamSeries(k)
                  n == Len(x)
              IN  /\ Cardinality({i \in 1 .. Len(result.cards) :
                         result.cards[i].title = UpstreamLabel(k)}) = 1
                  /\ Cardinality({j \in 1 .. Len(result.sec2.x) :
                         result.sec2.x[j] = UpstreamLabel(k)}) = 1
                  /\ \A j \in 1 .. Len(result.sec2.x) :
                        result.sec2.x[j] = UpstreamLabel(k) =>
                           IsQuotient(result.sec2.y[j], (x[n] - x[1]) * 100, x[1])

(* Bitcoin failed, Ethereum gave [100, 110] and Cardano [95]: the bars are *)
(* Cardano 0 % and Ethereum +10 %, in sorted order, not in coin order.      *)
BarsInSortedOrder ==
    /\ data_type = "crypto"
    /\ pc = "done"
    /\ UpstreamSeries(1) = <<>>
    /\ UpstreamSeries(2) = <<100, 110>>
    /\ UpstreamSeries(3) = <<95>>
    /\ result.sec2.x = <<"Cardano", "Ethereum">>
    /\ IsQuotient(result.sec2.y[1], 0, 1)
    /\ IsQuotient(result.sec2.y[2], 10, 1)
    /\ Len(result.cards) = 2

====
